---------------------------- MODULE Spec2Model ----------------------------
(***************************************************************************)
(* The threshold-triggered actuation control loop of the two BCI example   *)
(* scripts:                                                                *)
(*   examples/data_channel/bci_control/brainflow_robot_control.py          *)
(*       (window polling, class BrainFlowRobotController)                  *)
(*   examples/data_channel/bci_control/emotiv_control.py                   *)
(*       (event driven, class BCIRobotController)                          *)
(*                                                                         *)
(* One control thread runs main() -> run() -> setup_bci(), setup_robot(),  *)
(* the loop, and cleanup() from the finally blocks of run() and of main(). *)
(* pc is the statement the thread is about to execute (or is suspended     *)
(* in).  Every external call (board, model, cortex, robot connection) may  *)
(* succeed or raise; an external interrupt may arrive at any statement:    *)
(* at an await it surfaces as CancelledError (asyncio cancels the main     *)
(* task), inside synchronous code as KeyboardInterrupt.  Both derive from  *)
(* BaseException, so "except Exception" does not catch them.               *)
(* Scores, powers and thresholds are in tenths (0.6 is 6).                 *)
(***************************************************************************)
EXTENDS Integers, Sequences, FiniteSets, TLC

\* ---------------------------------------------------------------- bounds
\* Loop cycles a run may perform before only an interrupt can end it.
MaxCycles == 4
\* External interrupts delivered to one process run.
MaxInterrupts == 1

\* ------------------------------------------------------------- inputs
Variants == {"brainflow", "emotiv"}
\* Concentration scores the classifier may return (below, at, above 0.6).
Scores == {1, 2, 3, 6, 7}
\* Value .get('command') yields for a missing key.
None == "None"
\* Mental-command events cortex.receive_data() may deliver: the empty
\* event, 'push' at several powers, 'push' without a power field, another
\* label with a high power.
Events ==
    { <<>>,
      [command |-> "push", power |-> 4],
      [command |-> "push", power |-> 5],
      [command |-> "push", power |-> 7],
      [command |-> "push"],
      [command |-> "neutral", power |-> 7] }

VARIABLES
    variant,        \* which script runs
    pc,             \* statement the control thread is at
    clCaller,       \* whose finally block called cleanup(): "run" | "main"
    pending,        \* exception in flight while a finally block runs
    clResult,       \* how the current cleanup() call ended
    running,        \* self.running
    boardSet,       \* self.board is not None
    session,        \* board session: "none" | "prepared" | "streaming" | "released"
    modelSet,       \* self.concentration_model is not None
    model,          \* "none" | "prepared" | "released"
    cortex,         \* "new" | "open" | "closed"
    connSet,        \* self.robot_conn is not None
    conn,           \* "none" | "connected" | "disconnected"
    cycle,          \* loop cycles started
    data_size,      \* data.size of the window polled in this cycle
    concentration,  \* score of this cycle (-1: none computed)
    mental_command, \* event received in this cycle
    cmds,           \* requests published to the robot, in order
    hits,           \* cycles whose input was at or above the threshold
    interrupts,     \* external interrupts delivered
    intAt,          \* statement the last interrupt arrived at ("none": no interrupt)
    \* history of the run, read by the properties only
    setupDone,      \* setups that completed: subset of {"bci", "robot"}
    setupFailed,    \* a setup step raised an Exception
    scoreFailed,    \* process_brain_data caught an Exception in this cycle
    cleanups,       \* calls of cleanup()
    clLog,          \* teardown steps attempted, one set per cleanup() call
    clAcquired,     \* resources open when the current cleanup() began
    useAfterClose,  \* an operation was invoked on a closed handle
    runOutcome,     \* how run() ended, as its caller sees it
    mainOutcome     \* how main() ended

ctl == <<pc, clCaller, pending, clResult, setupFailed>>
res == <<boardSet, session, modelSet, model, cortex, connSet, conn>>
loop == <<cycle, data_size, concentration, mental_command, scoreFailed, hits>>
clHist == <<cleanups, clLog, clAcquired>>
outcomes == <<runOutcome, mainOutcome>>
hist == <<setupDone, clHist, outcomes>>
intr == <<interrupts, intAt>>
vars == <<variant, ctl, running, res, loop, cmds, intr, hist, useAfterClose>>

\* ------------------------------------------------------ configuration
\* command_threshold as main() configures it: 0.6 (BrainFlow), 0.5 (Emotiv).
bf_command_threshold == 6
em_command_threshold == 5
command_threshold ==
    IF variant = "brainflow" THEN bf_command_threshold ELSE em_command_threshold

\* --------------------------------------------------------- exceptions
Exceptions == {"SetupFailure", "StreamFailure", "DispatchFailure", "CleanupFailure"}
BaseExceptions == {"CancelledError", "KeyboardInterrupt"}
\* "except Exception" matches e
IsException(e) == e \in Exceptions

SetupPcs ==
    {"prepare_session", "start_stream", "model_prepare",
     "cortex_open", "request_access", "authenticate", "query_headsets",
     "connect_headset", "create_session", "query_profile", "load_profile",
     "setup_profile", "train_mc", "save_profile",
     "connect", "set_motion_mode", "mode_settle"}
MovePcs == {"move", "move_wait", "stop"}
CleanupPcs ==
    {"cl_stop_stream", "cl_release_session", "cl_model_release",
     "cl_cortex_close", "cl_disconnect"}
\* Statements that are plain (synchronous) calls; every other one is an await.
SyncPcs ==
    {"prepare_session", "start_stream", "model_prepare", "poll_board",
     "process_brain_data", "process_mental_commands",
     "cl_stop_stream", "cl_release_session", "cl_model_release"}


\* ------------------------------------------------------------- state
Init ==
    /\ variant \in Variants
    /\ pc = "main"
    /\ clCaller = "run"
    /\ pending = "none"
    /\ clResult = "ok"
    /\ running = FALSE
    /\ boardSet = FALSE
    /\ session = "none"
    /\ modelSet = FALSE
    /\ model = "none"
    /\ cortex = "new"
    /\ connSet = FALSE
    /\ conn = "none"
    /\ cycle = 0
    /\ data_size = 0
    /\ concentration = -1
    /\ mental_command = <<>>
    /\ cmds = <<>>
    /\ hits = <<>>
    /\ interrupts = 0
    /\ intAt = "none"
    /\ setupDone = {}
    /\ setupFailed = FALSE
    /\ scoreFailed = FALSE
    /\ cleanups = 0
    /\ clLog = <<>>
    /\ clAcquired = {}
    /\ useAfterClose = FALSE
    /\ runOutcome = "pending"
    /\ mainOutcome = "pending"

\* ------------------------------------------------------ control flow
\* Outcomes of one statement: it returns, it raises an Exception, or the
\* external interrupt arrives while it executes.
Outcomes ==
    {"ok", "fail"} \cup (IF interrupts < MaxInterrupts THEN {"interrupt"} ELSE {})
\* Outcomes of a wait (asyncio.sleep): it elapses or it is cancelled.
WaitOutcomes == Outcomes \ {"fail"}

\* The exception outcome r raises at the current statement.
Thrown(r, failure) ==
    IF r = "interrupt"
    THEN IF pc \in SyncPcs THEN "KeyboardInterrupt" ELSE "CancelledError"
    ELSE failure

Delivered(r) ==
    /\ interrupts' = IF r = "interrupt" THEN interrupts + 1 ELSE interrupts
    /\ intAt' = IF r = "interrupt" THEN pc ELSE intAt

\* First statement of the loop body.
PollPc == IF variant = "brainflow" THEN "poll_board" ELSE "receive_data"
\* A loop test that fails although the flag is set: the loop falls through
\* to the finally block of run().
LoopHeadExits(flag) == "cl_enter"
\* "while self.running:" with the value the flag has when it is tested.
LoopHead(flag) == IF flag THEN PollPc ELSE "cl_enter"
\* Where move_forward() returns to: the inter-cycle sleep (BrainFlow), the
\* loop test (Emotiv, whose loop has no sleep).
AfterMoveForward == IF variant = "brainflow" THEN "idle_wait" ELSE LoopHead(running)

\* What run()'s "except Exception" leaves in flight for its finally block.
RunHandler(e) == IF IsException(e) THEN "none" ELSE e

Goto(p) ==
    /\ pc' = p
    /\ UNCHANGED <<clCaller, pending, clResult, setupFailed>>

\* move_forward() without its "except Exception": a failed send leaves it
\* and reaches the handler of run().
RaiseUncaught(e) ==
    IF pc \in CleanupPcs
    THEN /\ pc' = "cl_exit"
         /\ clResult' = e
         /\ UNCHANGED <<clCaller, pending, setupFailed>>
    ELSE /\ pc' = "cl_enter"
         /\ pending' = RunHandler(e)
         /\ setupFailed' = (setupFailed \/ (pc \in SetupPcs /\ IsException(e)))
         /\ UNCHANGED <<clCaller, clResult>>

\* move_forward() sending its stop from a handler: the stop is published
\* also after a move whose send raised.
RaiseStopsAnyway(e) ==
    IF pc \in CleanupPcs
    THEN /\ pc' = "cl_exit"
         /\ clResult' = e
         /\ UNCHANGED <<clCaller, pending, setupFailed>>
    ELSE IF pc \in MovePcs /\ IsException(e)
    THEN /\ pc' = IF pc = "move" THEN "stop" ELSE AfterMoveForward
         /\ UNCHANGED <<clCaller, pending, clResult, setupFailed>>
    ELSE /\ pc' = "cl_enter"
         /\ pending' = RunHandler(e)
         /\ setupFailed' = (setupFailed \/ (pc \in SetupPcs /\ IsException(e)))
         /\ UNCHANGED <<clCaller, clResult>>

\* Exception e raised at the current statement: to the innermost handler.
Raise(e) ==
    IF pc \in CleanupPcs
    THEN \* cleanup() has no handler: the exception leaves it
         /\ pc' = "cl_exit"
         /\ clResult' = e
         /\ UNCHANGED <<clCaller, pending, setupFailed>>
    ELSE IF pc \in MovePcs /\ IsException(e)
    THEN \* move_forward(): except Exception: log
         /\ pc' = AfterMoveForward
         /\ UNCHANGED <<clCaller, pending, clResult, setupFailed>>
    ELSE \* run(): except Exception: log; finally: cleanup()
         /\ pc' = "cl_enter"
         /\ pending' = RunHandler(e)
         /\ setupFailed' = (setupFailed \/ (pc \in SetupPcs /\ IsException(e)))
         /\ UNCHANGED <<clCaller, clResult>>

Step(r, next, failure) ==
    IF r = "ok" THEN Goto(next) ELSE Raise(Thrown(r, failure))

\* A handler that logs and forgets to re-raise.
SetupBciSwallows(e) == "none"
SetupRobotSwallows(e) == "none"

\* setup_bci() (and setup_training()): except Exception as e: log; raise.
\* The exception that leaves the handler ("none": the function returns).
SetupBciHandler(e) == e
\* setup_robot(): except Exception as e: log; raise
SetupRobotHandler(e) == e

\* One statement inside the try block of setup_bci(); setup_robot() is
\* the statement of run() that follows setup_bci().
BciStep(r, next) ==
    IF r = "ok" THEN Goto(next)
    ELSE IF r = "fail" /\ SetupBciHandler("SetupFailure") = "none" THEN Goto("connect")
    ELSE Raise(Thrown(r, SetupBciHandler("SetupFailure")))

\* One statement inside the try block of setup_robot(); "self.running =
\* True" is the statement of run() that follows setup_robot().
RobotStep(r, next) ==
    IF r = "ok" THEN Goto(next)
    ELSE IF r = "fail" /\ SetupRobotHandler("SetupFailure") = "none" THEN Goto("start_loop")
    ELSE Raise(Thrown(r, SetupRobotHandler("SetupFailure")))

\* A request published on the robot's data channel.
Cmd(op, r) == [op |-> op, res |-> IF r = "interrupt" THEN "interrupted" ELSE r, cyc |-> cycle]

\* ------------------------------------------------------------- main()
MainStart ==
    /\ pc = "main"
    /\ Goto(IF variant = "brainflow" THEN "prepare_session" ELSE "cortex_open")
    /\ UNCHANGED <<variant, running, res, loop, cmds, intr, hist, useAfterClose>>

\* ------------------------------------------- BrainFlow: setup_bci()
PrepareSession ==
    /\ pc = "prepare_session"
    /\ \E r \in Outcomes :
        /\ Delivered(r)
        /\ boardSet' = TRUE
        /\ session' = IF r = "ok" THEN "prepared" ELSE session
        /\ BciStep(r, "start_stream")
    /\ UNCHANGED <<variant, running, modelSet, model, cortex, connSet, conn,
                   loop, cmds, hist, useAfterClose>>

StartStream ==
    /\ pc = "start_stream"
    /\ \E r \in Outcomes :
        /\ Delivered(r)
        /\ session' = IF r = "ok" THEN "streaming" ELSE session
        /\ BciStep(r, "model_prepare")
    /\ UNCHANGED <<variant, running, boardSet, modelSet, model, cortex, connSet, conn,
                   loop, cmds, hist, useAfterClose>>

ModelPrepare ==
    /\ pc = "model_prepare"
    /\ \E r \in Outcomes :
        /\ Delivered(r)
        /\ modelSet' = TRUE
        /\ model' = IF r = "ok" THEN "prepared" ELSE model
        /\ setupDone' = IF r = "ok" THEN setupDone \cup {"bci"} ELSE setupDone
        /\ BciStep(r, "connect")
    /\ UNCHANGED <<variant, running, boardSet, session, cortex, connSet, conn,
                   loop, cmds, clHist, outcomes, useAfterClose>>

\* ---------------------------------------------- Emotiv: setup_bci()
CortexOpen ==
    /\ pc = "cortex_open"
    /\ \E r \in Outcomes :
        /\ Delivered(r)
        /\ cortex' = IF r = "ok" THEN "open" ELSE cortex
        /\ BciStep(r, "request_access")
    /\ UNCHANGED <<variant, running, boardSet, session, modelSet, model, connSet, conn,
                   loop, cmds, hist, useAfterClose>>

\* The awaited cortex calls of setup_bci() and setup_training() that only
\* succeed or raise, each with the statement that follows it.
CortexCallNext ==
    [request_access  |-> "authenticate",
     authenticate    |-> "query_headsets",
     connect_headset |-> "create_session",
     create_session  |-> "query_profile",
     load_profile    |-> "connect",
     setup_profile   |-> "train_mc",
     train_mc        |-> "save_profile",
     save_profile    |-> "connect"]

CortexCall ==
    /\ pc \in DOMAIN CortexCallNext
    /\ \E r \in Outcomes :
        /\ Delivered(r)
        /\ setupDone' = IF r = "ok" /\ CortexCallNext[pc] = "connect"
                        THEN setupDone \cup {"bci"} ELSE setupDone
        /\ BciStep(r, CortexCallNext[pc])
    /\ UNCHANGED <<variant, running, res, loop, cmds, clHist, outcomes, useAfterClose>>

\* headsets = await query_headsets(); if len(headsets) < 1: raise ValueError
QueryHeadsets ==
    /\ pc = "query_headsets"
    /\ \E r \in Outcomes, headsets \in {0, 1} :
        /\ Delivered(r)
        /\ BciStep(IF r = "ok" /\ headsets < 1 THEN "fail" ELSE r, "connect_headset")
    /\ UNCHANGED <<variant, running, res, loop, cmds, hist, useAfterClose>>

\* profiles = await query_profile(); train a new profile or load the known one
QueryProfile ==
    /\ pc = "query_profile"
    /\ \E r \in Outcomes, known \in BOOLEAN :
        /\ Delivered(r)
        /\ BciStep(r, IF known THEN "load_profile" ELSE "setup_profile")
    /\ UNCHANGED <<variant, running, res, loop, cmds, hist, useAfterClose>>

\* ------------------------------------------------------ setup_robot()
Connect ==
    /\ pc = "connect"
    /\ \E r \in Outcomes :
        /\ Delivered(r)
        /\ connSet' = TRUE
        /\ conn' = IF r = "ok" THEN "connected" ELSE conn
        /\ RobotStep(r, "set_motion_mode")
    /\ UNCHANGED <<variant, running, boardSet, session, modelSet, model, cortex,
                   loop, cmds, hist, useAfterClose>>

\* _set_motion_mode("normal"): the MOTION_SWITCHER request
SetMotionMode ==
    /\ pc = "set_motion_mode"
    /\ \E r \in Outcomes :
        /\ Delivered(r)
        /\ cmds' = Append(cmds, Cmd("mode", r))
        /\ RobotStep(r, "mode_settle")
    /\ UNCHANGED <<variant, running, res, loop, hist, useAfterClose>>

\* _set_motion_mode: await asyncio.sleep(2); then setup_robot() returns
ModeSettle ==
    /\ pc = "mode_settle"
    /\ \E r \in WaitOutcomes :
        /\ Delivered(r)
        /\ setupDone' = IF r = "ok" THEN setupDone \cup {"robot"} ELSE setupDone
        /\ RobotStep(r, "start_loop")
    /\ UNCHANGED <<variant, running, res, loop, cmds, clHist, outcomes, useAfterClose>>

\* run(): self.running = True; then the loop test (BrainFlow) or the
\* subscription to the mental-command stream (Emotiv)
StartLoop ==
    /\ pc = "start_loop"
    /\ running' = TRUE
    /\ Goto(IF variant = "emotiv" THEN "subscribe" ELSE LoopHead(TRUE))
    /\ UNCHANGED <<variant, res, loop, cmds, intr, hist, useAfterClose>>

\* Emotiv run(): await self.cortex.subscribe(['com'])
Subscribe ==
    /\ pc = "subscribe"
    /\ \E r \in Outcomes :
        /\ Delivered(r)
        /\ Step(r, LoopHead(running), "StreamFailure")
    /\ UNCHANGED <<variant, running, res, loop, cmds, hist, useAfterClose>>

\* ------------------------------------------------------ decision policy
\* The comparison written with > instead of >=.
TriggersStrict(s) == s > command_threshold

\* BrainFlow run(): if concentration >= self.bci_config.command_threshold
Triggers(s) == s >= command_threshold

\* dict.get(key, default)
Get(d, key, default) == IF key \in DOMAIN d THEN d[key] ELSE default

\* The test of process_mental_commands() without its label comparison.
QualifiesAnyLabel(ev) == Get(ev, "power", 0) >= command_threshold

\* Emotiv process_mental_commands(): command == 'push' and power >= threshold
Qualifies(ev) ==
    /\ Get(ev, "command", None) = "push"
    /\ Get(ev, "power", 0) >= command_threshold

\* ------------------------------------------------- BrainFlow: the loop
\* data = self.board.get_current_board_data(window_size); if data.size > 0
PollBoard ==
    /\ pc = "poll_board"
    /\ \E r \in Outcomes, size \in {0, 4} :
        /\ Delivered(r)
        /\ cycle' = IF r = "interrupt" THEN cycle ELSE cycle + 1
        /\ data_size' = IF r = "ok" THEN size ELSE 0
        /\ concentration' = -1
        /\ scoreFailed' = FALSE
        /\ Step(r, IF size > 0 THEN "process_brain_data" ELSE "idle_wait", "StreamFailure")
    /\ UNCHANGED <<variant, running, res, mental_command, hits, cmds, hist, useAfterClose>>

\* process_brain_data() that hands back a score although its computation
\* raised.
ScoreIgnoresError(r, s) == s

\* What process_brain_data() returns: the classifier's score s, or 0.0 when
\* anything inside it raised an Exception.
concentration_score(r, s) == IF r = "fail" THEN 0 ELSE s

\* concentration = self.process_brain_data(data), then the threshold test
\* of run().
ProcessBrainData ==
    /\ pc = "process_brain_data"
    /\ \E r \in Outcomes, s \in Scores :
        LET score == concentration_score(r, s) IN
        /\ Delivered(r)
        /\ concentration' = IF r = "interrupt" THEN concentration ELSE score
        /\ scoreFailed' = (r = "fail")
        /\ hits' = IF r # "interrupt" /\ score >= command_threshold
                   THEN Append(hits, cycle) ELSE hits
        /\ IF r = "interrupt"
           THEN Raise(Thrown(r, "none"))
           ELSE Goto(IF Triggers(score) THEN "move" ELSE "idle_wait")
    /\ UNCHANGED <<variant, running, res, cycle, data_size, mental_command, cmds,
                   hist, useAfterClose>>

\* await asyncio.sleep(0.1), then the loop test
IdleWait ==
    /\ pc = "idle_wait"
    /\ \E r \in WaitOutcomes :
        /\ r = "ok" => cycle < MaxCycles
        /\ Delivered(r)
        /\ Step(r, LoopHead(running), "none")
    /\ UNCHANGED <<variant, running, res, loop, cmds, hist, useAfterClose>>

\* ---------------------------------------------------- Emotiv: the loop
\* mental_command = await self.cortex.receive_data()
ReceiveData ==
    /\ pc = "receive_data"
    /\ \E r \in Outcomes, ev \in Events :
        /\ r # "interrupt" => cycle < MaxCycles
        /\ Delivered(r)
        /\ cycle' = IF r = "interrupt" THEN cycle ELSE cycle + 1
        /\ mental_command' = IF r = "ok" THEN ev ELSE <<>>
        /\ Step(r, "process_mental_commands", "StreamFailure")
    /\ UNCHANGED <<variant, running, res, data_size, concentration, scoreFailed,
                   hits, cmds, hist, useAfterClose>>

\* process_mental_commands(): return on a falsy event, else the label and
\* power test; then the loop test
ProcessMentalCommands ==
    /\ pc = "process_mental_commands"
    /\ \E r \in WaitOutcomes :
        /\ Delivered(r)
        /\ hits' = IF /\ r = "ok"
                      /\ "command" \in DOMAIN mental_command
                      /\ mental_command["command"] = "push"
                      /\ "power" \in DOMAIN mental_command
                      /\ mental_command["power"] >= command_threshold
                   THEN Append(hits, cycle) ELSE hits
        /\ Step(r,
                IF DOMAIN mental_command = {} THEN LoopHead(running)
                ELSE IF Qualifies(mental_command) THEN "move"
                ELSE LoopHead(running),
                "none")
    /\ UNCHANGED <<variant, running, res, cycle, data_size, concentration,
                   mental_command, scoreFailed, cmds, hist, useAfterClose>>

\* ------------------------------------------------------ move_forward()
\* the Move request with x = move_speed
Move ==
    /\ pc = "move"
    /\ \E r \in Outcomes :
        /\ Delivered(r)
        /\ cmds' = Append(cmds, Cmd("move", r))
        /\ Step(r, "move_wait", "DispatchFailure")
    /\ UNCHANGED <<variant, running, res, loop, hist, useAfterClose>>

\* await asyncio.sleep(self.robot_config.move_duration)
MoveWait ==
    /\ pc = "move_wait"
    /\ \E r \in WaitOutcomes :
        /\ Delivered(r)
        /\ Step(r, "stop", "none")
    /\ UNCHANGED <<variant, running, res, loop, cmds, hist, useAfterClose>>

\* the Move request with x = y = z = 0
Stop ==
    /\ pc = "stop"
    /\ \E r \in Outcomes :
        /\ Delivered(r)
        /\ cmds' = Append(cmds, Cmd("stop", r))
        /\ Step(r, AfterMoveForward, "DispatchFailure")
    /\ UNCHANGED <<variant, running, res, loop, hist, useAfterClose>>

\* ------------------------------------------------------------ cleanup()
\* cleanup() written to release in the reverse of the acquisition order.
CleanupOrderReversed ==
    IF variant = "brainflow"
    THEN <<"cl_disconnect", "cl_model_release", "cl_release_session", "cl_stop_stream">>
    ELSE <<"cl_disconnect", "cl_cortex_close">>
\* cleanup() written to release the model before the session.
CleanupOrderModelFirst ==
    IF variant = "brainflow"
    THEN <<"cl_stop_stream", "cl_model_release", "cl_release_session", "cl_disconnect">>
    ELSE <<"cl_cortex_close", "cl_disconnect">>

\* The teardown statements of cleanup(), in program order.
CleanupOrder ==
    IF variant = "brainflow"
    THEN <<"cl_stop_stream", "cl_release_session", "cl_model_release", "cl_disconnect">>
    ELSE <<"cl_cortex_close", "cl_disconnect">>

\* The "if self.<handle>:" test that guards a teardown statement.  The
\* Cortex object is built in __init__, so "if self.cortex" is always true.
CleanupGuard(step) ==
    CASE step \in {"cl_stop_stream", "cl_release_session"} -> boardSet
      [] step = "cl_model_release" -> modelSet
      [] step = "cl_cortex_close" -> TRUE
      [] step = "cl_disconnect" -> connSet

\* The statement cleanup() executes after its i-th one returned (0: first).
NextCleanupStep(i) ==
    LET later == {j \in (i + 1)..Len(CleanupOrder) : CleanupGuard(CleanupOrder[j])}
    IN  IF later = {} THEN "cl_exit"
        ELSE CleanupOrder[CHOOSE j \in later : \A k \in later : j <= k]

\* Resources that are open (acquired and not yet released).
Open ==
    (IF session = "streaming" THEN {"stream"} ELSE {})
    \cup (IF session \in {"prepared", "streaming"} THEN {"session"} ELSE {})
    \cup (IF model = "prepared" THEN {"model"} ELSE {})
    \cup (IF cortex = "open" THEN {"cortex"} ELSE {})
    \cup (IF conn = "connected" THEN {"conn"} ELSE {})

\* cleanup() is entered: self.running = False, then the first guarded step
CleanupEnter ==
    /\ pc = "cl_enter"
    /\ running' = FALSE
    /\ cleanups' = cleanups + 1
    /\ clLog' = Append(clLog, {})
    /\ clAcquired' = Open
    /\ clResult' = "ok"
    /\ pc' = NextCleanupStep(0)
    /\ UNCHANGED <<variant, clCaller, pending, setupFailed, res, loop, cmds,
                   intr, setupDone, outcomes, useAfterClose>>

\* self.board.stop_stream()
StopStream ==
    /\ pc = "cl_stop_stream"
    /\ \E r \in Outcomes :
        /\ Delivered(r)
        /\ clLog' = [clLog EXCEPT ![cleanups] = @ \cup {pc}]
        /\ useAfterClose' = (useAfterClose \/ session = "released")
        /\ session' = IF r = "ok" /\ session = "streaming" THEN "prepared" ELSE session
        /\ Step(r, NextCleanupStep(1), "CleanupFailure")
    /\ UNCHANGED <<variant, running, boardSet, modelSet, model, cortex, connSet, conn,
                   loop, cmds, setupDone, cleanups, clAcquired, outcomes>>

\* self.board.release_session()
ReleaseSession ==
    /\ pc = "cl_release_session"
    /\ \E r \in Outcomes :
        /\ Delivered(r)
        /\ clLog' = [clLog EXCEPT ![cleanups] = @ \cup {pc}]
        /\ useAfterClose' = (useAfterClose \/ session = "released")
        /\ session' = IF r = "ok" /\ session \in {"prepared", "streaming"}
                      THEN "released" ELSE session
        /\ Step(r, NextCleanupStep(2), "CleanupFailure")
    /\ UNCHANGED <<variant, running, boardSet, modelSet, model, cortex, connSet, conn,
                   loop, cmds, setupDone, cleanups, clAcquired, outcomes>>

\* self.concentration_model.release()
ModelRelease ==
    /\ pc = "cl_model_release"
    /\ \E r \in Outcomes :
        /\ Delivered(r)
        /\ clLog' = [clLog EXCEPT ![cleanups] = @ \cup {pc}]
        /\ useAfterClose' = (useAfterClose \/ model = "released")
        /\ model' = IF r = "ok" /\ model = "prepared" THEN "released" ELSE model
        /\ Step(r, NextCleanupStep(3), "CleanupFailure")
    /\ UNCHANGED <<variant, running, boardSet, session, modelSet, cortex, connSet, conn,
                   loop, cmds, setupDone, cleanups, clAcquired, outcomes>>

\* await self.cortex.close()
CortexClose ==
    /\ pc = "cl_cortex_close"
    /\ \E r \in Outcomes :
        /\ Delivered(r)
        /\ clLog' = [clLog EXCEPT ![cleanups] = @ \cup {pc}]
        /\ useAfterClose' = (useAfterClose \/ cortex = "closed")
        /\ cortex' = IF r = "ok" /\ cortex = "open" THEN "closed" ELSE cortex
        /\ Step(r, NextCleanupStep(1), "CleanupFailure")
    /\ UNCHANGED <<variant, running, boardSet, session, modelSet, model, connSet, conn,
                   loop, cmds, setupDone, cleanups, clAcquired, outcomes>>

\* await self.robot_conn.disconnect(), the last statement of cleanup()
Disconnect ==
    /\ pc = "cl_disconnect"
    /\ \E r \in Outcomes :
        /\ Delivered(r)
        /\ clLog' = [clLog EXCEPT ![cleanups] = @ \cup {pc}]
        /\ useAfterClose' = (useAfterClose \/ conn = "disconnected")
        /\ conn' = IF r = "ok" /\ conn = "connected" THEN "disconnected" ELSE conn
        /\ Step(r, "cl_exit", "CleanupFailure")
    /\ UNCHANGED <<variant, running, boardSet, session, modelSet, model, cortex, connSet,
                   loop, cmds, setupDone, cleanups, clAcquired, outcomes>>

\* ------------------------------------------- the two finally blocks
\* What leaves a finally block: the exception its cleanup() raised, else the
\* one that was in flight when the block was entered.
Leaves == IF clResult # "ok" THEN clResult ELSE pending

\* main(): "except KeyboardInterrupt: print(...)" handles only that one.
MainHandler(e) == IF e = "KeyboardInterrupt" THEN "none" ELSE e

\* cleanup() called from run()'s finally ends; run() ends; main()'s
\* except/finally take over and call cleanup() again.
RunExit ==
    /\ pc = "cl_exit"
    /\ clCaller = "run"
    /\ runOutcome' = IF Leaves = "none" THEN "returned" ELSE Leaves
    /\ pending' = MainHandler(Leaves)
    /\ clCaller' = "main"
    /\ pc' = "cl_enter"
    /\ UNCHANGED <<variant, clResult, setupFailed, running, res, loop, cmds, intr,
                   setupDone, clHist, mainOutcome, useAfterClose>>

\* cleanup() called from main()'s finally ends; main() ends.
MainExit ==
    /\ pc = "cl_exit"
    /\ clCaller = "main"
    /\ mainOutcome' = IF Leaves = "none" THEN "returned" ELSE Leaves
    /\ pc' = "done"
    /\ UNCHANGED <<variant, clCaller, pending, clResult, setupFailed, running, res, loop,
                   cmds, intr, setupDone, clHist, runOutcome, useAfterClose>>

\* ------------------------------------------------------ specification
Next ==
    \/ MainStart
    \/ PrepareSession \/ StartStream \/ ModelPrepare
    \/ CortexOpen \/ CortexCall \/ QueryHeadsets \/ QueryProfile
    \/ Connect \/ SetMotionMode \/ ModeSettle \/ StartLoop \/ Subscribe
    \/ PollBoard \/ ProcessBrainData \/ IdleWait
    \/ ReceiveData \/ ProcessMentalCommands
    \/ Move \/ MoveWait \/ Stop
    \/ CleanupEnter
    \/ StopStream \/ ReleaseSession \/ ModelRelease \/ CortexClose \/ Disconnect
    \/ RunExit \/ MainExit

Spec == Init /\ [][Next]_vars

TypeOK ==
    /\ variant \in Variants
    /\ running \in BOOLEAN
    /\ session \in {"none", "prepared", "streaming", "released"}
    /\ model \in {"none", "prepared", "released"}
    /\ cortex \in {"new", "open", "closed"}
    /\ conn \in {"none", "connected", "disconnected"}
    /\ cycle \in 0..MaxCycles
    /\ interrupts \in 0..MaxInterrupts
    /\ cleanups \in 0..2
    /\ pending \in {"none"} \cup Exceptions \cup BaseExceptions
    /\ clResult \in {"ok"} \cup Exceptions \cup BaseExceptions
    /\ runOutcome \in {"pending", "returned"} \cup Exceptions \cup BaseExceptions
    /\ mainOutcome \in {"pending", "returned"} \cup Exceptions \cup BaseExceptions

\* =============================================================== claims
Range(f) == {f[i] : i \in DOMAIN f}
\* Positions in cmds of the requests of kind op published in cycle c.
CmdIdx(c, op) == {i \in DOMAIN cmds : cmds[i].cyc = c /\ cmds[i].op = op}
\* Positions in cmds of all requests of kind op.
AllIdx(op) == {i \in DOMAIN cmds : cmds[i].op = op}
\* The teardown statement that releases a resource.
ReleaseStep(x) ==
    CASE x = "stream" -> "cl_stop_stream"
      [] x = "session" -> "cl_release_session"
      [] x = "model" -> "cl_model_release"
      [] x = "cortex" -> "cl_cortex_close"
      [] x = "conn" -> "cl_disconnect"
\* Teardown statements attempted by any cleanup() call of the run.
Tried == UNION Range(clLog)

\* C1: in a run started through main(), cleanup() is executed exactly once,
\* whichever way the run ends: never twice, and once when main() has ended.
C1_CleanupExactlyOnce ==
    /\ cleanups <= 1
    /\ pc = "done" => cleanups = 1

\* C2: once a session, a model, the cortex client or the robot connection
\* has been closed, no operation is invoked on that handle again (a second
\* stop/release/close/disconnect from a later cleanup() included).
C2_NoUseAfterClose == ~useAfterClose

\* C3: when the run has terminated, no session, stream, model or connection
\* opened during it remains open.  A release call that itself raised in
\* every attempt is not held against the controller: the formula demands of
\* a resource still open at the end only that its release was never even
\* invoked, which the claim excludes.
C3_AcquiredAreReleased ==
    pc = "done" => \A x \in Open : ReleaseStep(x) \in Tried

\* C4: a cleanup() call that was not cut short by an interrupt has attempted
\* the teardown step of every resource that was open when it began, also
\* when an earlier teardown step raised.
C4_EveryStepAttempted ==
    (pc = "cl_exit" /\ clResult \notin BaseExceptions)
        => \A x \in clAcquired : ReleaseStep(x) \in clLog[cleanups]

\* C5: a failing teardown step is never propagated out of cleanup(): it is
\* neither what a cleanup() call ends with nor the outcome of run() or main().
C5_CleanupNeverRaises ==
    /\ clResult # "CleanupFailure"
    /\ runOutcome # "CleanupFailure"
    /\ mainOutcome # "CleanupFailure"

C7_MoveAlwaysStopped ==
    (conn = "disconnected" \/ pc = "done") =>
        \A i \in AllIdx("move") :
            cmds[i].res = "ok" => (i < Len(cmds) /\ cmds[i + 1].op = "stop")

\* C8: on a robot connection the motion mode is requested once and only
\* once; every move or stop comes after a mode request that succeeded and
\* whose settle delay has elapsed.
C8_ModeOnceBeforeMove ==
    /\ Cardinality(AllIdx("mode")) <= 1
    /\ conn = "none" => AllIdx("mode") = {}
    /\ (conn # "none" /\ pc # "set_motion_mode") => Cardinality(AllIdx("mode")) = 1
    /\ \A i \in AllIdx("move") \cup AllIdx("stop") :
          /\ \E j \in AllIdx("mode") : j < i /\ cmds[j].res = "ok"
          /\ "robot" \in setupDone

C8_Witness ==
    /\ AllIdx("move") # {}
    /\ cmds[1] = [op |-> "mode", res |-> "ok", cyc |-> 0]
    /\ pc = "move_wait"

\* C9: a move or stop is published only while the controller is Running:
\* after both setups completed, with self.running set and before cleanup()
\* was ever entered; a run whose setup did not complete has published none.
C9_MovesOnlyWhileRunning ==
    /\ [](setupDone # {"bci", "robot"} => AllIdx("move") \cup AllIdx("stop") = {})
    /\ [][ (Len(cmds') > Len(cmds) /\ cmds'[Len(cmds')].op \in {"move", "stop"})
            => (running /\ setupDone = {"bci", "robot"} /\ cleanups = 0) ]_vars

\* A move has just been published, in a run whose two setups completed.
C9_Witness ==
    /\ AllIdx("move") # {}
    /\ running
    /\ setupDone = {"bci", "robot"}
    /\ cleanups = 0
    /\ pc = "move_wait"

\* Scenario B: a run in which connect() failed has ended with no request
\* published at all.
C9_WitnessConnectFails ==
    /\ pc = "done"
    /\ connSet /\ conn = "none"
    /\ setupFailed
    /\ cmds = <<>>

\* C10: when a setup step raised, run() ends by raising that setup failure
\* to its caller.
C10_SetupFailureSurfaced ==
    (setupFailed /\ runOutcome # "pending") => runOutcome = "SetupFailure"

\* C11: when a setup step raised, the teardown that follows invokes the
\* release operations of exactly the resources whose acquisition had
\* succeeded: no stop, release, close or disconnect on a resource that was
\* never acquired, and (once that cleanup() call has ended without being
\* interrupted) the release of every acquired one.
C11_ReleasesExactlyAcquired ==
    (setupFailed /\ cleanups = 1 /\ pc \in CleanupPcs \cup {"cl_exit"}) =>
        /\ clLog[1] \subseteq {ReleaseStep(x) : x \in clAcquired}
        /\ (pc = "cl_exit" /\ clResult \notin BaseExceptions)
              => {ReleaseStep(x) : x \in clAcquired} \subseteq clLog[1]

\* C12: an error raised by the poll of the signal source or by the score
\* computation does not end the loop: unless an interrupt arrives, the step
\* after a poll or a score computation is still inside the loop, with the
\* controller Running and cleanup() not entered.
C12_PollErrorAbsorbed ==
    [][ (pc \in {"poll_board", "receive_data", "process_brain_data"}
            /\ interrupts' = interrupts)
          => (running' /\ pc' # "cl_enter" /\ cleanups' = 0) ]_vars

\* C13: when the send of a move or of a stop raises, the controller stays
\* Running and goes on to the rest of the cycle (the inter-cycle wait, or
\* the next receive), cleanup() is not entered, and the failed request is
\* not sent again: no cycle publishes more than one move.
C13_DispatchFailureAbsorbed ==
    /\ [](\A c \in 1..cycle : Cardinality(CmdIdx(c, "move")) <= 1)
    /\ [][ (Len(cmds') > Len(cmds)
              /\ cmds'[Len(cmds')].op \in {"move", "stop"}
              /\ cmds'[Len(cmds')].res = "fail")
            => /\ running'
               /\ cleanups' = 0
               /\ pc' = IF variant = "brainflow" THEN "idle_wait" ELSE "receive_data" ]_vars

\* An earlier cycle's move send failed, another one's stop send failed, and
\* the loop polls again.
C13_Witness ==
    /\ running
    /\ pc = PollPc
    /\ \E i \in AllIdx("move") : cmds[i].res = "fail" /\ cmds[i].cyc < cycle
    /\ \E j \in AllIdx("stop") : cmds[j].res = "fail" /\ cmds[j].cyc < cycle

\* C14: after an external interrupt that arrived while the loop was at its
\* poll or in its inter-cycle wait, the controller is out of the loop at
\* once (no further poll, score computation or dispatch), and by the end of
\* the run every step of the teardown sequence has been executed.
C14_InterruptRunsFullTeardown ==
    intAt \in {"poll_board", "receive_data", "idle_wait"} =>
        /\ pc \in CleanupPcs \cup {"cl_enter", "cl_exit", "done"}
        /\ pc = "done" => Range(CleanupOrder) \subseteq Tried

AllAcquired == {"stream", "session", "model", "conn"}
\* The steps that come before step p in the sequence order.
StepsBefore(order, p) ==
    {order[i] : i \in {j \in DOMAIN order : \E k \in DOMAIN order : order[k] = p /\ j < k}}

IsAccepted(c) == c.res = "ok"
Accepted == SelectSeq(cmds, IsAccepted)

\* C17 (as claimed): in the sequence of commands the robot receives, every
\* move is immediately followed by its own stop (of the same cycle), or is
\* the last command while its move_forward() is still executing.  Runs that
\* an interrupt cut short are left aside.
C17_MoveThenOwnStop ==
    interrupts = 0 =>
        \A i \in DOMAIN Accepted :
            Accepted[i].op = "move" =>
                IF i < Len(Accepted)
                THEN Accepted[i + 1].op = "stop" /\ Accepted[i + 1].cyc = Accepted[i].cyc
                ELSE pc \in {"move_wait", "stop"} /\ Accepted[i].cyc = cycle

\* C17 (amended): between a move and its paired stop nothing else is
\* started.  While move_forward() waits or sends its stop, the last request
\* published is the accepted move of the current cycle and the score is
\* still the one that triggered it; every stop directly follows the accepted
\* move of its own cycle; an accepted move is directly followed by its own
\* stop or is the last request published, and only a move whose send raised
\* is directly followed by another move, of a later cycle.
C17_NothingBetweenMoveAndStop ==
    /\ pc \in {"move_wait", "stop"} =>
          /\ Len(cmds) > 0
          /\ cmds[Len(cmds)] = [op |-> "move", res |-> "ok", cyc |-> cycle]
          /\ cycle \in Range(hits)
          /\ variant = "brainflow" => concentration >= command_threshold
    /\ \A j \in AllIdx("stop") :
          /\ j > 1
          /\ cmds[j - 1].op = "move" /\ cmds[j - 1].res = "ok"
          /\ cmds[j - 1].cyc = cmds[j].cyc
    /\ \A i \in AllIdx("move") :
          i < Len(cmds) =>
              IF cmds[i].res = "ok"
              THEN cmds[i + 1].op = "stop" /\ cmds[i + 1].cyc = cmds[i].cyc
              ELSE /\ cmds[i].res = "fail"
                   /\ cmds[i + 1].op = "move" /\ cmds[i + 1].cyc > cmds[i].cyc

\* Event-driven variant: one move and its stop were published, the next
\* event triggered a second move, whose stop is about to be sent.
C17_Witness ==
    /\ variant = "emotiv"
    /\ pc = "stop"
    /\ [i \in DOMAIN cmds |-> <<cmds[i].op, cmds[i].res>>]
         = <<(<<"mode", "ok">>), (<<"move", "ok">>), (<<"stop", "ok">>), (<<"move", "ok">>)>>
    /\ cmds[4].cyc = cycle

\* An event that qualifies in the words of C18: labelled 'push', with a
\* power field at or above the threshold of the event-driven variant.
PushAtThreshold(ev) ==
    /\ "command" \in DOMAIN ev /\ ev["command"] = "push"
    /\ "power" \in DOMAIN ev /\ ev["power"] >= em_command_threshold

\* C18: in the event-driven variant an event triggers a dispatch if and
\* only if it is labelled 'push' with power >= command_threshold.  A move is
\* published for every such event, as soon as it has been examined, and for
\* no other: the empty event, another label at any power, or 'push' without
\* a power field leave their cycle without any move or stop.
C18_DispatchIffPush ==
    variant = "emotiv" =>
        /\ \A c \in 1..cycle :
              IF c \in Range(hits)
              THEN /\ Cardinality(CmdIdx(c, "move")) <= 1
                   /\ CmdIdx(c, "move") = {} <=> (c = cycle /\ pc = "move")
              ELSE CmdIdx(c, "move") = {} /\ CmdIdx(c, "stop") = {}
        /\ pc \in MovePcs => PushAtThreshold(mental_command)
        /\ (pc \in {"process_mental_commands", "receive_data"}
               /\ ~PushAtThreshold(mental_command))
              => /\ cycle \notin Range(hits)
                 /\ CmdIdx(cycle, "move") = {} /\ CmdIdx(cycle, "stop") = {}
        /\ (PushAtThreshold(mental_command) /\ pc \in {"move_wait", "stop", "receive_data"})
              => /\ cycle \in Range(hits)
                 /\ Cardinality(CmdIdx(cycle, "move")) = 1

\* Three events: 'push' at exactly the threshold, which published its move
\* and stop, then two that do not qualify, the last one another label at a
\* high power; nothing further was published.
C18_Witness ==
    /\ variant = "emotiv"
    /\ pc = "receive_data"
    /\ cycle = 3
    /\ hits = <<1>>
    /\ mental_command = [command |-> "neutral", power |-> 7]
    /\ [i \in DOMAIN cmds |-> <<cmds[i].op, cmds[i].cyc>>]
         = <<(<<"mode", 0>>), (<<"move", 1>>), (<<"stop", 1>>)>>

\* C19: in the window-polling variant a cycle whose score computation
\* raised has the score 0.0 and, the threshold being positive, publishes
\* no move or stop; a cycle whose polled window is empty computes no score
\* and publishes nothing: a score is computed, and a dispatch made, only on
\* a non-empty window.
C19_FailedOrEmptyNeverDispatches ==
    variant = "brainflow" =>
        /\ scoreFailed =>
              /\ concentration = 0
              /\ pc \notin MovePcs
              /\ cycle \notin Range(hits)
              /\ CmdIdx(cycle, "move") = {} /\ CmdIdx(cycle, "stop") = {}
        /\ pc \in {"process_brain_data"} \cup MovePcs => data_size > 0
        /\ (data_size = 0 /\ pc = "idle_wait") =>
              /\ concentration = -1
              /\ ~scoreFailed
              /\ cycle \notin Range(hits)
              /\ CmdIdx(cycle, "move") = {} /\ CmdIdx(cycle, "stop") = {}

\* The score computation of the second cycle raised: the score is 0.0 and
\* the cycle is in its inter-cycle wait with nothing published.
C19_Witness ==
    /\ variant = "brainflow"
    /\ pc = "idle_wait"
    /\ cycle = 2
    /\ scoreFailed
    /\ data_size > 0
    /\ concentration = 0
    /\ AllIdx("move") = {}

\* The statements of the loop body.
LoopPcs ==
    {"poll_board", "process_brain_data", "idle_wait",
     "receive_data", "process_mental_commands"} \cup MovePcs

\* C20: self.running is True only from the end of the two successful setups
\* to the start of cleanup(): it is set at the statement after setup_robot()
\* and cleared by cleanup() alone, so it is True all through the loop.  The
\* control thread goes from the loop to cleanup() only when an interrupt
\* arrived or the poll raised: the loop test never ends the loop.
C20_RunningOnlyInLoop ==
    /\ [](/\ running => (setupDone = {"bci", "robot"} /\ ~setupFailed /\ cleanups = 0)
          /\ pc \in LoopPcs \cup {"subscribe"} => running
          /\ pc \in CleanupPcs \cup {"cl_exit", "done"} => ~running)
    /\ [][ running' # running
             => \/ pc = "start_loop" /\ running'
                \/ pc = "cl_enter" /\ ~running' ]_vars
    /\ [][ (pc \in LoopPcs \cup {"start_loop"} /\ pc' = "cl_enter")
             => \/ interrupts' = interrupts + 1
                \/ pc = PollPc /\ cycle' = cycle + 1 ]_vars

\* Three cycles have run without an interrupt or a poll error, and the
\* loop, still Running, is at its next poll.
C20_Witness ==
    /\ running
    /\ interrupts = 0
    /\ cycle = 3
    /\ pc = PollPc
    /\ cleanups = 0
=============================================================================
